---- MODULE Spec2Model ----
(***************************************************************************)
(* Model of the EnergyZero ETL pipeline: the Extractor                     *)
(* (scripts/extract_energyzero.py), the Transformer                        *)
(* (scripts/transform_pandas.py), the Validator                            *)
(* (scripts/validate_parquet.py) and the scheduler's DAG                   *)
(* (dags/energyzero_dags.py).                                              *)
(*                                                                         *)
(* A JSON / DataFrame cell is a pair <<tag, n>>:                           *)
(*   <<"num", n>>     the number n                                         *)
(*   <<"numstr", n>>  the string that spells the number n ("100")          *)
(*   <<"ts", h>>      a string that spells a timestamp (hour h)            *)
(*   <<"text", i>>    any other string ("abc", "not-a-date")               *)
(*   <<"null", 0>>    JSON null / a key the record lacks (None)            *)
(*   <<"nan", 0>>     a float NaN / NaT                                    *)
(*   <<"date", h>>, <<"time", h>>  the derived Date and Time values        *)
(* A record is a function from its keys to cells; its keys are ordered as  *)
(* in KeyOrder.  A DataFrame is a sequence of columns [name, vals].        *)
(***************************************************************************)
EXTENDS Integers, Sequences, FiniteSets, TLC

\* Largest number of records in a payload.
MaxRecords == 3
\* Largest number of keys in a record.
MaxKeys == 3

NullV == <<"null", 0>>
NaN == <<"nan", 0>>
NotADate == <<"text", 1>>
Abc == <<"text", 0>>

\* The order in which a record lists its keys.
KeyOrder == <<"value", "region", "price", "Price", "readingDate", "ReadingDate">>
Keys == {KeyOrder[i] : i \in 1..Len(KeyOrder)}
DateKeys == {"readingDate", "ReadingDate"}
PriceKeys == {"price", "Price", "value"}

\* The keys of S as a sequence, in KeyOrder.
RECURSIVE OrderedFrom(_, _)
OrderedFrom(S, i) ==
    IF i > Len(KeyOrder) THEN <<>>
    ELSE (IF KeyOrder[i] \in S THEN <<KeyOrder[i]>> ELSE <<>>) \o OrderedFrom(S, i + 1)

KeysOf(rec) == OrderedFrom(DOMAIN rec, 1)

(***************************************************************************)
(* Bounded input: the payloads an API response can carry.                  *)
(***************************************************************************)
\* The well-formed value of key k in the r-th record: every key and row has
\* its own value, so that columns and rows can be told apart.
GoodVal(k, r) ==
    CASE k = "readingDate" -> <<"ts", r>>
      [] k = "ReadingDate" -> <<"ts", 10 + r>>
      [] k = "price" -> <<"num", 20 + r>>
      [] k = "Price" -> <<"num", 30 + r>>
      [] k = "value" -> <<"num", 40 + r>>
      [] OTHER -> <<"text", 5>>

\* What can be wrong with one key of one record.
Defects(S) ==
    {<<"none", "none">>}
      \cup {<<k, d>> : k \in S \cap DateKeys, d \in {"text", "missing"}}
      \cup {<<k, d>> : k \in S \cap PriceKeys, d \in {"text", "null", "numstr"}}

MkRecord(S, r, defect) ==
    LET dom == IF defect[2] = "missing" THEN S \ {defect[1]} ELSE S
    IN [k \in dom |->
          IF k # defect[1] THEN GoodVal(k, r)
          ELSE CASE defect[2] = "text" -> IF k \in DateKeys THEN NotADate ELSE Abc
                 [] defect[2] = "null" -> NullV
                 [] defect[2] = "numstr" -> <<"numstr", 7>>
                 [] OTHER -> GoodVal(k, r)]

KeySets == {S \in SUBSET Keys : Cardinality(S) <= MaxKeys}

\* The record lists of a payload: up to MaxRecords records over one key set,
\* at most one of them with a defect.
RecordLists ==
    UNION {UNION {{[r \in 1..n |-> MkRecord(S, r, IF r = bad THEN d ELSE <<"none", "none">>)] :
                     bad \in 1..n, d \in Defects(S)}
                  : n \in 0..MaxRecords} : S \in KeySets}

\* A JSON value under a key of a mapping payload: a list of records or not.
JsonList(items) == [isList |-> TRUE, items |-> items]
JsonScalar == [isList |-> FALSE, items |-> <<>>]

\* The keys extract_records probes, in its order (transform_pandas.py:31).
ProbeKeys == <<"Prices", "prices", "data", "results", "items">>

\* The list a mapping payload holds under its i-th probe key: one per key,
\* so that the key that was used can be told from the result.
ListUnder(i) == <<MkRecord({"readingDate", "price"}, i, <<"none", "none">>)>>

MkMapping(choice) ==
    LET present == {i \in 1..Len(ProbeKeys) : choice[i] # "absent"}
    IN [k \in {ProbeKeys[i] : i \in present} \cup {"meta"} |->
          IF k = "meta" THEN JsonScalar
          ELSE LET i == CHOOSE j \in present : ProbeKeys[j] = k
               IN CASE choice[i] = "scalar" -> JsonScalar
                    [] choice[i] = "empty" -> JsonList(<<>>)
                    [] OTHER -> JsonList(ListUnder(i))]

\* A parsed JSON payload: a list, a mapping, or anything else.
ListPayload(items) == [kind |-> "list", items |-> items, entries |-> <<>>]
DictPayload(entries) == [kind |-> "dict", items |-> <<>>, entries |-> entries]
ScalarPayload == [kind |-> "scalar", items |-> <<>>, entries |-> <<>>]

Payloads ==
    {ListPayload(l) : l \in RecordLists}
      \cup {DictPayload(MkMapping(c)) :
              c \in [1..Len(ProbeKeys) -> {"absent", "scalar", "empty", "list"}]}
      \cup {ScalarPayload}

(***************************************************************************)
(* transform_pandas.py                                                     *)
(***************************************************************************)
\* The result of a call: a value, or the exception it raised.
Return(v) == [raised |-> "", value |-> v]
Raise(e) == [raised |-> e, value |-> <<>>]

\* The for loop of extract_records from its i-th key on.
RECURSIVE ProbeFrom(_, _)
ProbeFrom(entries, i) ==
    IF i > Len(ProbeKeys) THEN Raise("ValueError")
    ELSE IF ProbeKeys[i] \in DOMAIN entries /\ entries[ProbeKeys[i]].isList
         THEN Return(entries[ProbeKeys[i]].items)
         ELSE ProbeFrom(entries, i + 1)

\* extract_records with an empty record set in place of the error.
extract_records_lenient(payload) ==
    IF payload.kind = "list" THEN Return(payload.items)
    ELSE IF payload.kind = "dict" /\ ProbeFrom(payload.entries, 1).raised = ""
    THEN ProbeFrom(payload.entries, 1)
    ELSE Return(<<>>)

extract_records(payload) ==
    IF payload.kind = "list" THEN Return(payload.items)
    ELSE IF payload.kind = "dict" THEN ProbeFrom(payload.entries, 1)
    ELSE Raise("ValueError")

\* ---- DataFrame helpers (pandas) ----
Range(f) == {f[i] : i \in DOMAIN f}
Column(name, vals) == [name |-> name, vals |-> vals]
Columns(df) == [i \in DOMAIN df |-> df[i].name]
HasColumn(df, name) == \E i \in DOMAIN df : df[i].name = name
\* The positions of the columns called name (more than one after a rename
\* that maps two columns to the same name).
Positions(df, name) == {i \in DOMAIN df : df[i].name = name}
\* df[name] where exactly one column is called name.
Series(df, name) == df[CHOOSE i \in DOMAIN df : df[i].name = name].vals
NRows(df) == IF df = <<>> THEN 0 ELSE Len(df[1].vals)
\* df[name] = vals: replaces the column called name, or appends a new one.
Assign(df, name, vals) ==
    IF HasColumn(df, name)
    THEN [i \in DOMAIN df |-> IF df[i].name = name THEN Column(name, vals) ELSE df[i]]
    ELSE Append(df, Column(name, vals))

\* The keys of the records in order of first appearance.
RECURSIVE AppendNew(_, _)
AppendNew(names, ks) ==
    IF ks = <<>> THEN names
    ELSE AppendNew(IF Head(ks) \in Range(names) THEN names ELSE Append(names, Head(ks)),
                   Tail(ks))

RECURSIVE UnionKeys(_, _, _)
UnionKeys(records, i, names) ==
    IF i > Len(records) THEN names
    ELSE UnionKeys(records, i + 1, AppendNew(names, KeysOf(records[i])))

\* pd.DataFrame.from_records(records): one column per key, one row per
\* record, a key that a record lacks read as missing (NaN/None).
from_records(records) ==
    LET names == UnionKeys(records, 1, <<>>)
    IN [c \in DOMAIN names |->
          Column(names[c],
                 [r \in DOMAIN records |->
                    IF names[c] \in DOMAIN records[r] THEN records[r][names[c]]
                    ELSE NullV])]

\* df.rename(columns=rename_map)
Rename(df, rename_map) ==
    [i \in DOMAIN df |->
       IF df[i].name \in DOMAIN rename_map
       THEN Column(rename_map[df[i].name], df[i].vals)
       ELSE df[i]]

\* The rename_map standardize_columns builds.
RenameMap(df) ==
    LET from ==
          (IF HasColumn(df, "readingDate") /\ ~HasColumn(df, "ReadingDate")
           THEN {"readingDate"} ELSE {})
          \cup (IF HasColumn(df, "price") /\ ~HasColumn(df, "Price")
                THEN {"price"} ELSE {})
          \cup (IF HasColumn(df, "value") /\ ~HasColumn(df, "Price")
                THEN {"value"} ELSE {})
    IN [k \in from |-> IF k = "readingDate" THEN "ReadingDate" ELSE "Price"]

\* standardize_columns as a blanket rename, without the checks for the target.
standardize_columns_blanket(df) ==
    Rename(df, [k \in {"readingDate", "price", "value"} |->
                  IF k = "readingDate" THEN "ReadingDate" ELSE "Price"])

standardize_columns(df) ==
    LET rename_map == RenameMap(df)
    IN IF DOMAIN rename_map # {} THEN Rename(df, rename_map) ELSE df

\* pd.isna
IsNa(v) == v[1] \in {"null", "nan"}

\* pd.to_datetime(v, utc=True, errors="coerce") of one value: a timestamp
\* string parses, anything else the model feeds it becomes NaT.
to_datetime(v) == IF v[1] = "ts" THEN v ELSE NaN

\* pd.to_numeric(v, errors="coerce") of one value.
to_numeric(v) ==
    CASE v[1] = "num" -> v
      [] v[1] = "numstr" -> <<"num", v[2]>>
      [] OTHER -> NaN

\* --vat-rate: a rate in percent, or the float nan (float("nan") parses).
VatRates == {<<"num", 21>>, <<"nan", 0>>}

\* price * (1.0 + vat_rate), in hundredths.
WithVat(price, vat_rate) ==
    IF IsNa(price) \/ IsNa(vat_rate) THEN NaN
    ELSE <<"num", price[2] * (100 + vat_rate[2])>>

preferred == <<"ReadingDate", "Date", "Time", "Price", "Price_with_VAT">>

\* df[cols] for column names cols, each naming one column of df.
Select(df, cols) == [i \in DOMAIN cols |-> Column(cols[i], Series(df, cols[i]))]

\* [c for c in df.columns if c not in preferred]
Others(df) == SelectSeq(Columns(df), LAMBDA c : c \notin Range(preferred))

\* A file: absent, or present with its content.
Absent == [exists |-> FALSE, content |-> <<>>]
File(content) == [exists |-> TRUE, content |-> content]

\* What one run of the Transformer's main computed: the exception that
\* ended it ("" when none), its locals records and df (as standardize_columns
\* returned it), and the table it hands to to_parquet.
TransformRun(err, records, df_std, out) ==
    [err |-> err, records |-> records, df_std |-> df_std, out |-> out]

\* CoercePrice without the check after pd.to_numeric: a price that does not
\* coerce stays in the table as NaN.
CoercePriceNullFill(records, df_std, df, vat_rate) ==
    LET rows == 1..NRows(df)
    IN IF Cardinality(Positions(df, "Price")) > 1
       THEN TransformRun("TypeError:Price", records, df_std, <<>>)
       ELSE
       LET price == [r \in rows |-> to_numeric(Series(df, "Price")[r])]
           df4 == Assign(df, "Price", price)
           df5 == Assign(df4, "Price_with_VAT",
                         [r \in rows |-> WithVat(price[r], vat_rate)])
       IN TransformRun("", records, df_std, Select(df5, preferred \o Others(df5)))

\* main() from the price coercion on (transform_pandas.py:84-92): df has
\* its Date and Time columns.
CoercePrice(records, df_std, df, vat_rate) ==
    LET rows == 1..NRows(df)
    IN IF Cardinality(Positions(df, "Price")) > 1
       THEN \* df["Price"] is a DataFrame: pd.to_numeric raises
            TransformRun("TypeError:Price", records, df_std, <<>>)
       ELSE
       LET price == [r \in rows |-> to_numeric(Series(df, "Price")[r])]
           df4 == Assign(df, "Price", price)
       IN IF \E r \in rows : IsNa(price[r])
          THEN TransformRun("ValueError:Price", records, df_std, <<>>)
          ELSE
          LET df5 == Assign(df4, "Price_with_VAT",
                            [r \in rows |-> WithVat(price[r], vat_rate)])
              cols == preferred \o Others(df5)
          IN TransformRun("", records, df_std, Select(df5, cols))

\* main() from the timestamp parsing on (transform_pandas.py:76-92).
ParseAndDerive(records, df, vat_rate) ==
    LET rows == 1..NRows(df)
        dt == [r \in rows |-> to_datetime(Series(df, "ReadingDate")[r])]
    IN IF \E r \in rows : IsNa(dt[r])
       THEN TransformRun("ValueError:ReadingDate", records, df, <<>>)
       ELSE
       LET df2 == Assign(df, "Date", [r \in rows |-> <<"date", dt[r][2]>>])
           df3 == Assign(df2, "Time", [r \in rows |-> <<"time", dt[r][2]>>])
       IN CoercePrice(records, df, df3, vat_rate)

\* main() of transform_pandas.py up to the table it writes: src is the file
\* --input names (or the latest file of data/raw).
TransformMain(src, vat_rate) ==
    IF ~src.exists
    THEN TransformRun("FileNotFoundError", <<>>, <<>>, <<>>)
    ELSE
    LET ex == extract_records(src.content)
    IN IF ex.raised # ""
       THEN TransformRun("ValueError:records", <<>>, <<>>, <<>>)
       ELSE
       LET records == ex.value
           df == standardize_columns(from_records(records))
       IN IF ~HasColumn(df, "ReadingDate")
          THEN TransformRun("KeyError:ReadingDate", records, df, <<>>)
          ELSE IF ~HasColumn(df, "Price")
          THEN TransformRun("KeyError:Price", records, df, <<>>)
          ELSE ParseAndDerive(records, df, vat_rate)

\* df.to_parquet(out_file, index=False): a float NaN is stored as a null.
to_parquet(df) ==
    [i \in DOMAIN df |->
       Column(df[i].name,
              [r \in DOMAIN df[i].vals |->
                 IF df[i].vals[r] = NaN THEN NullV ELSE df[i].vals[r]])]

\* pd.read_parquet(p): a stored null of a numeric column is read as NaN.
read_parquet(table) ==
    [i \in DOMAIN table |->
       Column(table[i].name,
              [r \in DOMAIN table[i].vals |->
                 IF table[i].vals[r] = NullV
                    /\ \E q \in DOMAIN table[i].vals : table[i].vals[q][1] = "num"
                 THEN NaN ELSE table[i].vals[r]])]

(***************************************************************************)
(* validate_parquet.py                                                     *)
(***************************************************************************)
required_cols == <<"ReadingDate", "Date", "Time", "Price", "Price_with_VAT">>

\* What one run of the Validator's main reports: the failed check ("" when
\* none), the columns found missing, the column at fault and its null count.
ValidateRun(err, missing, col, bad_nulls) ==
    [err |-> err, missing |-> missing, col |-> col, bad_nulls |-> bad_nulls]

\* The body of the for loop over ("Price", "Price_with_VAT"), from the i-th.
RECURSIVE CheckNumeric(_, _, _)
CheckNumeric(df, cols, i) ==
    IF i > Len(cols) THEN ValidateRun("", <<>>, "", 0)
    ELSE
    LET vals == Series(df, cols[i])
        bad_nulls == Cardinality({r \in DOMAIN vals : IsNa(vals[r])})
    IN IF bad_nulls # 0 THEN ValidateRun("nulls", <<>>, cols[i], bad_nulls)
       ELSE IF \E r \in DOMAIN vals : IsNa(to_numeric(vals[r]))
       THEN ValidateRun("non-numeric", <<>>, cols[i], 0)
       ELSE CheckNumeric(df, cols, i + 1)

\* ValidateMain without the df.empty check.
ValidateMainNoEmptyCheck(p) ==
    IF ~p.exists THEN ValidateRun("FileNotFoundError", <<>>, "", 0)
    ELSE
    LET df == read_parquet(p.content)
        missing == SelectSeq(required_cols, LAMBDA c : ~HasColumn(df, c))
    IN IF missing # <<>> THEN ValidateRun("missing-columns", missing, "", 0)
       ELSE CheckNumeric(df, <<"Price", "Price_with_VAT">>, 1)

\* main() of validate_parquet.py on the file --input names.
ValidateMain(p) ==
    IF ~p.exists THEN ValidateRun("FileNotFoundError", <<>>, "", 0)
    ELSE
    LET df == read_parquet(p.content)
        missing == SelectSeq(required_cols, LAMBDA c : ~HasColumn(df, c))
    IN IF missing # <<>> THEN ValidateRun("missing-columns", missing, "", 0)
       ELSE IF NRows(df) = 0 THEN ValidateRun("empty", <<>>, "", 0)
       ELSE CheckNumeric(df, <<"Price", "Price_with_VAT">>, 1)

(***************************************************************************)
(* extract_energyzero.py                                                   *)
(***************************************************************************)
\* What the API can answer to the GET: no answer at all (a connection error
\* or a timeout), or a status with a body that is JSON or not; a JSON body
\* is the price payload or an object without any price list.
Responses(body) ==
    {[answered |-> FALSE, status |-> 0, json |-> FALSE, body |-> ScalarPayload]}
      \cup {[answered |-> TRUE, status |-> st, json |-> FALSE, body |-> ScalarPayload] :
              st \in {200, 500}}
      \cup {[answered |-> TRUE, status |-> st, json |-> TRUE, body |-> b] :
              st \in {200, 500}, b \in {body, ScalarPayload}}

\* fetch_energy_data: session.get, raise_for_status, resp.json().
fetch_energy_data(resp) ==
    IF ~resp.answered THEN Raise("ConnectionError")
    ELSE IF resp.status >= 400 THEN Raise("HTTPError")
    ELSE IF ~resp.json THEN Raise("JSONDecodeError")
    ELSE Return(resp.body)

(***************************************************************************)
(* State.                                                                  *)
(***************************************************************************)
VARIABLES
    apiBody,    \* the JSON body the price API serves
    raw,        \* the raw JSON file (data/raw/energy_<tag>.json)
    parquet,    \* the columnar file (data/processed/energy_<tag>.parquet)
    last        \* the stage process that ran last, and what it computed

etlVars == <<apiBody, raw, parquet, last>>

NoTransform == TransformRun("", <<>>, <<>>, <<>>)
NoValidate == ValidateRun("", <<>>, "", 0)

\* A finished stage process: its exit code is 0 when nothing was raised
\* (raise SystemExit(main())), and 1 otherwise.
Finished(stage, err, t, v) ==
    [stage |-> stage, err |-> err, exit |-> IF err = "" THEN 0 ELSE 1,
     vat_rate |-> NullV, t |-> t, v |-> v]

InitETL ==
    /\ apiBody \in Payloads
    /\ raw = Absent
    /\ parquet = Absent
    /\ last = Finished("none", "", NoTransform, NoValidate)

\* Extract with the file written before the response is checked.
ExtractWritesFirst ==
    \E resp \in Responses(apiBody) :
        LET data == fetch_energy_data(resp)
        IN /\ raw' = IF resp.answered THEN File(resp.body) ELSE raw
           /\ last' = Finished("extract", data.raised, NoTransform, NoValidate)
           /\ UNCHANGED <<apiBody, parquet>>

\* One run of extract_energyzero.py --output <raw path>: any exception is
\* caught and logged and the process exits 1; the file is written after
\* fetch_energy_data returned.
Extract ==
    \E resp \in Responses(apiBody) :
        LET data == fetch_energy_data(resp)
        IN /\ raw' = IF data.raised = "" THEN File(data.value) ELSE raw
           /\ last' = Finished("extract", data.raised, NoTransform, NoValidate)
           /\ UNCHANGED <<apiBody, parquet>>

\* One run of transform_pandas.py --input <raw path> --output <parquet path>
\* --vat-rate <vat_rate>.
Transform ==
    \E vat_rate \in VatRates :
        LET t == TransformMain(raw, vat_rate)
        IN /\ parquet' = IF t.err = "" THEN File(to_parquet(t.out)) ELSE parquet
           /\ last' = [Finished("transform", t.err, t, NoValidate)
                         EXCEPT !.vat_rate = vat_rate]
           /\ UNCHANGED <<apiBody, raw>>

\* One run of validate_parquet.py --input <parquet path>: it only reads.
Validate ==
    LET v == ValidateMain(parquet)
    IN /\ last' = Finished("validate", v.err, NoTransform, v)
       /\ UNCHANGED <<apiBody, raw, parquet>>

(***************************************************************************)
(* dags/energyzero_dags.py: the scheduler's view of one DAG run.           *)
(* Time is counted in minutes since the run started.                       *)
(***************************************************************************)
\* Largest number of DAG runs in a behaviour (max_active_runs=1: one at a time).
MaxRuns == 2

retries == 2
retry_delay == 5
dagrun_timeout == 30

Tasks == {"extract", "transform", "validate"}

\* The three tasks without the line that chains them.
UpstreamNone(t) == {}

\* extract >> transform >> validate
Upstream(t) ==
    CASE t = "extract" -> {}
      [] t = "transform" -> {"extract"}
      [] t = "validate" -> {"transform"}

VARIABLES
    run,         \* the number of the DAG run
    run_state,   \* "running", "success" or "failed"
    timed_out,   \* whether dagrun_timeout ended the run
    ti,          \* the state of each task instance of the run
    try_number,  \* how many times each task was started in the run
    retry_at,    \* when a task up for retry may start again
    clock        \* minutes since the run started

dagVars == <<run, run_state, timed_out, ti, try_number, retry_at, clock>>

InitDag ==
    /\ run = 1
    /\ run_state = "running"
    /\ timed_out = FALSE
    /\ ti = [t \in Tasks |-> "none"]
    /\ try_number = [t \in Tasks |-> 0]
    /\ retry_at = [t \in Tasks |-> 0]
    /\ clock = 0

\* The scheduler starts a task whose upstream tasks all succeeded.
TaskStart(t) ==
    /\ run_state = "running"
    /\ ti[t] = "none"
    /\ \A u \in Upstream(t) : ti[u] = "success"
    /\ ti' = [ti EXCEPT ![t] = "running"]
    /\ try_number' = [try_number EXCEPT ![t] = @ + 1]
    /\ UNCHANGED <<run, run_state, timed_out, retry_at, clock>>

\* A task up for retry runs its whole bash_command again once retry_delay
\* has passed.
TaskRetry(t) ==
    /\ run_state = "running"
    /\ ti[t] = "up_for_retry"
    /\ clock >= retry_at[t]
    /\ ti' = [ti EXCEPT ![t] = "running"]
    /\ try_number' = [try_number EXCEPT ![t] = @ + 1]
    /\ UNCHANGED <<run, run_state, timed_out, retry_at, clock>>

\* The bash_command exits 0.
TaskSucceed(t) ==
    /\ run_state = "running"
    /\ ti[t] = "running"
    /\ ti' = [ti EXCEPT ![t] = "success"]
    /\ UNCHANGED <<run, run_state, timed_out, try_number, retry_at, clock>>

\* TaskFail with one retry more than default_args allows.
TaskFailOneMore(t) ==
    /\ run_state = "running"
    /\ ti[t] = "running"
    /\ IF try_number[t] <= retries + 1
       THEN /\ ti' = [ti EXCEPT ![t] = "up_for_retry"]
            /\ retry_at' = [retry_at EXCEPT ![t] = clock + retry_delay]
       ELSE /\ ti' = [ti EXCEPT ![t] = "failed"]
            /\ UNCHANGED retry_at
    /\ UNCHANGED <<run, run_state, timed_out, try_number, clock>>

\* The bash_command exits non-zero: up for retry while tries are left
\* (default_args "retries"), failed after that.
TaskFail(t) ==
    /\ run_state = "running"
    /\ ti[t] = "running"
    /\ IF try_number[t] <= retries
       THEN /\ ti' = [ti EXCEPT ![t] = "up_for_retry"]
            /\ retry_at' = [retry_at EXCEPT ![t] = clock + retry_delay]
       ELSE /\ ti' = [ti EXCEPT ![t] = "failed"]
            /\ UNCHANGED retry_at
    /\ UNCHANGED <<run, run_state, timed_out, try_number, clock>>

\* A task below a failed task is never started.
UpstreamFailed(t) ==
    /\ run_state = "running"
    /\ ti[t] = "none"
    /\ \E u \in Upstream(t) : ti[u] \in {"failed", "upstream_failed"}
    /\ ti' = [ti EXCEPT ![t] = "upstream_failed"]
    /\ UNCHANGED <<run, run_state, timed_out, try_number, retry_at, clock>>

\* Time passes.
Tick ==
    /\ run_state = "running"
    /\ clock < dagrun_timeout
    /\ clock' = clock + retry_delay
    /\ UNCHANGED <<run, run_state, timed_out, ti, try_number, retry_at>>

\* Every task instance is finished: the run succeeds if all of them did.
DagRunFinish ==
    /\ run_state = "running"
    /\ \A t \in Tasks : ti[t] \in {"success", "failed", "upstream_failed"}
    /\ run_state' = IF \A t \in Tasks : ti[t] = "success" THEN "success" ELSE "failed"
    /\ UNCHANGED <<run, timed_out, ti, try_number, retry_at, clock>>

\* dagrun_timeout: the run is failed and its unfinished tasks are skipped.
DagRunTimeout ==
    /\ run_state = "running"
    /\ clock >= dagrun_timeout
    /\ run_state' = "failed"
    /\ timed_out' = TRUE
    /\ ti' = [t \in Tasks |->
                IF ti[t] \in {"none", "running", "up_for_retry"} THEN "skipped" ELSE ti[t]]
    /\ UNCHANGED <<run, try_number, retry_at, clock>>

\* schedule="@daily": the next run starts after this one ended.
NextDagRun ==
    /\ run_state # "running"
    /\ run < MaxRuns
    /\ run' = run + 1
    /\ run_state' = "running"
    /\ timed_out' = FALSE
    /\ ti' = [t \in Tasks |-> "none"]
    /\ try_number' = [t \in Tasks |-> 0]
    /\ retry_at' = [t \in Tasks |-> 0]
    /\ clock' = 0

(***************************************************************************)
(* Artifact paths: the DAG's templated filenames and the stages' default   *)
(* timestamped filenames.  The wall clock counts ticks; a filename's       *)
(* timestamp (%Y%m%d_%H%M%S) keeps whole seconds only.                     *)
(***************************************************************************)
\* Number of manually started stage processes.
MaxProcs == 2
\* The wall clock runs from 0 to MaxTicks.
MaxTicks == 3
\* Clock ticks in one second.
TicksPerSecond == 2

Procs == 1..MaxProcs

\* Run ids as the scheduler makes them: <type>__<logical date>, the date in
\* ISO form with its ":" and "+" (and "." before a fraction of a second).
RunIds ==
    {<<type, "__", "2026-01-01", "T", hh, ":", "00", ":", "00">> \o frac \o <<"+", "00", ":", "00">> :
        type \in {"scheduled", "manual"}, hh \in {"00", "01"},
        frac \in {<<>>, <<".", "5">>}}

\* {{ run_id | replace(':','') | replace('+','') | replace('.','') }}
run_tag(run_id) == SelectSeq(run_id, LAMBDA c : c \notin {":", "+", "."})

raw_path(run_id) == <<"/opt/airflow/data/raw/energy_">> \o run_tag(run_id) \o <<".json">>
parquet_path(run_id) ==
    <<"/opt/airflow/data/processed/energy_">> \o run_tag(run_id) \o <<".parquet">>

\* f"{ts:%Y%m%d_%H%M%S}" of the instant ts (in ticks)
strftime(ts) == ToString(ts \div TicksPerSecond)

\* save_json's out_file, with project_root() = /opt/airflow
save_json_path(ts_utc) == <<"/opt/airflow/data/raw/energy_", strftime(ts_utc), ".json">>
\* the Transformer's default out_file
default_parquet_path(utcnow) ==
    <<"/opt/airflow/data/processed/energy_transformed_", strftime(utcnow), ".parquet">>

VARIABLES
    now,       \* the wall clock, in ticks
    procs,     \* the manually started stage processes
    dagRuns,   \* the run ids of the DAG runs that ran
    writes     \* who wrote which path

pathVars == <<now, procs, dagRuns, writes>>

Written(who, path) == [who |-> who, path |-> path]

InitPaths ==
    /\ now = 0
    /\ procs = [p \in Procs |-> [pc |-> "idle", now_utc |-> 0]]
    /\ dagRuns = {}
    /\ writes = {}

ClockTick ==
    /\ now < MaxTicks
    /\ now' = now + 1
    /\ UNCHANGED <<procs, dagRuns, writes>>

\* extract_energyzero.py without --output reads the clock, then fetches.
ExtractorStart(p) ==
    /\ procs[p].pc = "idle"
    /\ procs' = [procs EXCEPT ![p] = [pc |-> "fetching", now_utc |-> now]]
    /\ UNCHANGED <<now, dagRuns, writes>>

\* ... and saves under the time it read when it started.
ExtractorSave(p) ==
    /\ procs[p].pc = "fetching"
    /\ writes' = writes \cup {Written(<<"manual", ToString(p)>>,
                                      save_json_path(procs[p].now_utc))}
    /\ procs' = [procs EXCEPT ![p].pc = "done"]
    /\ UNCHANGED <<now, dagRuns>>

\* transform_pandas.py without --output names its file by the time of the write.
TransformerWrite(p) ==
    /\ procs[p].pc = "idle"
    /\ writes' = writes \cup {Written(<<"manual", ToString(p)>>, default_parquet_path(now))}
    /\ procs' = [procs EXCEPT ![p] = [pc |-> "done", now_utc |-> now]]
    /\ UNCHANGED <<now, dagRuns>>

\* A DAG run writes its two templated paths.
DagRunWrites(run_id) ==
    /\ run_id \notin dagRuns
    /\ Cardinality(dagRuns) < MaxRuns
    /\ dagRuns' = dagRuns \cup {run_id}
    /\ writes' = writes \cup {Written(<<"dag">> \o run_id, raw_path(run_id)),
                              Written(<<"dag">> \o run_id, parquet_path(run_id))}
    /\ UNCHANGED <<now, procs>>

(***************************************************************************)
(* Bounded input: the columnar files the Validator can be pointed at.      *)
(***************************************************************************)
\* Largest number of rows of such a file.
MaxRows == 2

TableColumns == required_cols \o <<"region">>
CellChoices == {<<"num", 100>>, <<"numstr", 7>>, Abc, NullV}

\* The table with the columns S and, in its r-th row, cells[r][1] as Price
\* and cells[r][2] as Price_with_VAT.
MkTable(S, cells) ==
    LET names == SelectSeq(TableColumns, LAMBDA c : c \in S)
    IN [i \in DOMAIN names |->
          Column(names[i],
                 [r \in DOMAIN cells |->
                    CASE names[i] = "ReadingDate" -> <<"ts", r>>
                      [] names[i] = "Date" -> <<"date", r>>
                      [] names[i] = "Time" -> <<"time", r>>
                      [] names[i] = "Price" -> cells[r][1]
                      [] names[i] = "Price_with_VAT" -> cells[r][2]
                      [] OTHER -> <<"text", 5>>])]

\* Every cell choice for the tables that have the five columns; for the
\* tables that lack columns, rows that are all alike.
Tables ==
    UNION {{MkTable(S, cells) :
              cells \in UNION {[1..n -> CellChoices \X CellChoices] : n \in 0..MaxRows}}
           : S \in {S \in SUBSET Range(TableColumns) : Range(required_cols) \subseteq S}}
      \cup
    UNION {{MkTable(S, [r \in 1..n |-> c]) : n \in 0..MaxRows, c \in CellChoices \X CellChoices}
           : S \in SUBSET Range(TableColumns)}

(***************************************************************************)
(* Specifications.                                                         *)
(***************************************************************************)
vars == <<apiBody, raw, parquet, last, run, run_state, timed_out, ti, try_number,
          retry_at, clock, now, procs, dagRuns, writes>>

\* The three stage processes, run by hand in any order on one API body.
Init == InitETL /\ InitDag /\ InitPaths

Next ==
    \/ Extract /\ UNCHANGED dagVars /\ UNCHANGED pathVars
    \/ Transform /\ UNCHANGED dagVars /\ UNCHANGED pathVars
    \/ Validate /\ UNCHANGED dagVars /\ UNCHANGED pathVars

Spec == Init /\ [][Next]_vars

\* The scheduler running the DAG.
InitScheduler ==
    /\ apiBody = ScalarPayload
    /\ raw = Absent
    /\ parquet = Absent
    /\ last = Finished("none", "", NoTransform, NoValidate)
    /\ InitDag
    /\ InitPaths

NextScheduler ==
    \/ \E t \in Tasks : TaskStart(t) /\ UNCHANGED etlVars /\ UNCHANGED pathVars
    \/ \E t \in Tasks : TaskRetry(t) /\ UNCHANGED etlVars /\ UNCHANGED pathVars
    \/ \E t \in Tasks : TaskSucceed(t) /\ UNCHANGED etlVars /\ UNCHANGED pathVars
    \/ \E t \in Tasks : TaskFail(t) /\ UNCHANGED etlVars /\ UNCHANGED pathVars
    \/ \E t \in Tasks : UpstreamFailed(t) /\ UNCHANGED etlVars /\ UNCHANGED pathVars
    \/ Tick /\ UNCHANGED etlVars /\ UNCHANGED pathVars
    \/ DagRunFinish /\ UNCHANGED etlVars /\ UNCHANGED pathVars
    \/ DagRunTimeout /\ UNCHANGED etlVars /\ UNCHANGED pathVars
    \/ NextDagRun /\ UNCHANGED etlVars /\ UNCHANGED pathVars

\* The scheduler keeps scheduling: time passes, the timeout is enforced, and
\* a task that may start is started.
SpecScheduler ==
    /\ InitScheduler
    /\ [][NextScheduler]_vars
    /\ WF_dagVars(Tick)
    /\ WF_dagVars(DagRunTimeout)
    /\ WF_dagVars(DagRunFinish)

\* The Validator pointed at any columnar file.
InitValidate ==
    /\ apiBody = ScalarPayload
    /\ raw = Absent
    /\ parquet \in {File(t) : t \in Tables}
    /\ last = Finished("none", "", NoTransform, NoValidate)
    /\ InitDag
    /\ InitPaths

NextValidate == Validate /\ UNCHANGED dagVars /\ UNCHANGED pathVars

SpecValidate == InitValidate /\ [][NextValidate]_vars

\* Runs and manual processes naming their artifacts.
NextPaths ==
    \/ ClockTick /\ UNCHANGED etlVars /\ UNCHANGED dagVars
    \/ \E p \in Procs : ExtractorStart(p) /\ UNCHANGED etlVars /\ UNCHANGED dagVars
    \/ \E p \in Procs : ExtractorSave(p) /\ UNCHANGED etlVars /\ UNCHANGED dagVars
    \/ \E p \in Procs : TransformerWrite(p) /\ UNCHANGED etlVars /\ UNCHANGED dagVars
    \/ \E id \in RunIds : DagRunWrites(id) /\ UNCHANGED etlVars /\ UNCHANGED dagVars

SpecPaths == InitScheduler /\ [][NextPaths]_vars

(***************************************************************************)
(* Properties of the stage processes (specification Spec).                 *)
(***************************************************************************)
\* The state right after a run of the Transformer that got as far as
\* calling extract_records: raw is the file it read.
TransformRead == last.stage = "transform" /\ raw.exists

ClaimedPriority == <<"Prices", "prices", "data", "results", "items">>
HoldsList(payload, k) == k \in DOMAIN payload.entries /\ payload.entries[k].isList

\* C1: extract_records returns a list payload itself; for a mapping it
\* returns the value of the first key, in the order Prices, prices, data,
\* results, items, whose value is a list; in every other case it raises and
\* returns no record set at all.
C1_ExtractRecords ==
    TransformRead =>
        LET payload == raw.content
            holders == {i \in DOMAIN ClaimedPriority : HoldsList(payload, ClaimedPriority[i])}
        IN CASE payload.kind = "list" ->
                  /\ last.t.err # "ValueError:records"
                  /\ last.t.records = payload.items
             [] payload.kind = "dict" /\ holders # {} ->
                  LET first == CHOOSE i \in holders : \A j \in holders : i <= j
                  IN /\ last.t.err # "ValueError:records"
                     /\ last.t.records = payload.entries[ClaimedPriority[first]].items
             [] OTHER -> last.t.err = "ValueError:records"

\* A mapping with lists under prices and data and a non-list under Prices:
\* the list under prices was returned.
C1_Witness ==
    /\ TransformRead
    /\ raw.content.kind = "dict"
    /\ "Prices" \in DOMAIN raw.content.entries
    /\ ~HoldsList(raw.content, "Prices")
    /\ HoldsList(raw.content, "prices")
    /\ HoldsList(raw.content, "data")
    /\ raw.content.entries["prices"].items # raw.content.entries["data"].items
    /\ last.t.records = raw.content.entries["prices"].items

\* The state right after a run of the Transformer that called
\* standardize_columns.
Standardized ==
    /\ TransformRead
    /\ last.t.err \notin {"FileNotFoundError", "ValueError:records"}

\* C2: if ReadingDate (resp. Price) is among the input columns, then after
\* standardize_columns that column and readingDate (resp. price, value) are
\* where they were, with their names and values.
C2_NeverOverwrites ==
    Standardized =>
        LET before == from_records(last.t.records)
            after == last.t.df_std
        IN /\ Len(after) = Len(before)
           /\ \A i \in DOMAIN before :
                (\/ /\ before[i].name \in {"ReadingDate", "readingDate"}
                    /\ HasColumn(before, "ReadingDate")
                 \/ /\ before[i].name \in {"Price", "price", "value"}
                    /\ HasColumn(before, "Price"))
                => after[i] = before[i]

\* Records with both price and Price: Price keeps its values, price its name.
C2_Witness ==
    /\ Standardized
    /\ Len(last.t.records) >= 1
    /\ {"price", "Price"} \subseteq DOMAIN last.t.records[1]
    /\ HasColumn(last.t.df_std, "price")
    /\ Series(last.t.df_std, "Price")[1] = last.t.records[1]["Price"]
    /\ Series(last.t.df_std, "Price")[1] # last.t.records[1]["price"]

Parses(v) == v[1] = "ts"
Coerces(v) == v[1] \in {"num", "numstr"}

\* C3: a Transformer run succeeds only if every ReadingDate parses and every
\* Price coerces to a number, and then the table it wrote has as many rows
\* as there were records.
C3_NoRowDropped ==
    (Standardized /\ last.exit = 0) =>
        /\ \A r \in DOMAIN last.t.records :
             /\ Parses(Series(last.t.df_std, "ReadingDate")[r])
             /\ \A i \in Positions(last.t.df_std, "Price") : Coerces(last.t.df_std[i].vals[r])
        /\ parquet.exists
        /\ NRows(parquet.content) = Len(last.t.records)
        /\ NRows(last.t.df_std) = Len(last.t.records)

\* Three records of which one has a bad ReadingDate or Price: the run failed
\* and wrote nothing.
C3_Witness ==
    /\ Standardized
    /\ Len(last.t.records) = 3
    /\ last.t.err \in {"ValueError:ReadingDate", "ValueError:Price"}
    /\ Parses(Series(last.t.df_std, "ReadingDate")[1])
    /\ ~parquet.exists

\* C5: the artifact of a successful Transformer run has one row per record
\* and the five canonical columns first, and the Validator succeeds on it.
C5_EndToEnd ==
    /\ (Standardized /\ last.exit = 0) =>
         /\ NRows(parquet.content) = Len(last.t.records)
         /\ Len(parquet.content) >= 5
         /\ SubSeq(Columns(parquet.content), 1, 5)
              = <<"ReadingDate", "Date", "Time", "Price", "Price_with_VAT">>
    /\ (last.stage = "validate" /\ parquet.exists) => last.exit = 0

\* C9: the columns standardize_columns returns have pairwise distinct names.
C9_DistinctColumns ==
    Standardized =>
        \A i, j \in DOMAIN last.t.df_std :
            i # j => last.t.df_std[i].name # last.t.df_std[j].name

CheckErrors ==
    {"FileNotFoundError", "ValueError:records", "KeyError:ReadingDate", "KeyError:Price",
     "ValueError:ReadingDate", "ValueError:Price"}

Valid(table) ==
    /\ NRows(table) >= 1
    /\ \A c \in {"ReadingDate", "Date", "Time", "Price", "Price_with_VAT"} : HasColumn(table, c)
    /\ \A c \in {"Price", "Price_with_VAT"} :
         \A r \in 1..NRows(table) : Coerces(Series(table, c)[r])

NullCount(table, c) ==
    Cardinality({r \in 1..NRows(table) : Series(table, c)[r] \in {NullV, NaN}})

RunEnded == run_state \in {"success", "failed"}
Exhausted(t) == ti[t] = "failed" /\ try_number[t] = 3

C7_Safety ==
    /\ \A t \in Tasks :
         /\ try_number[t] <= 3
         /\ ti[t] = "failed" => try_number[t] = 3
         /\ (ti[t] = "running" /\ try_number[t] > 1) => clock >= retry_at[t]
    /\ RunEnded =>
         \/ run_state = "failed" /\ \E t \in Tasks : Exhausted(t)
         \/ run_state = "failed" /\ timed_out /\ clock >= 30
         \/ run_state = "success" /\ \A t \in Tasks : ti[t] = "success"

C8_NoCollision ==
    \A w1, w2 \in writes : w1.who # w2.who => w1.path # w2.path

====
